---- MODULE Spec2Model ----
(***************************************************************************)
(* Model of train_model.py (dvdkt1/asl-recognizer): the landmark           *)
(* normalisation function, the label encoding, the stratified split and    *)
(* the top-to-bottom training script with the files it writes.             *)
(***************************************************************************)
EXTENDS Integers, Sequences, FiniteSets, TLC

VARIABLES
    \* normalize_landmarks, statement by statement
    flat_landmarks,   \* the argument
    landmarks,        \* the local matrix (rows of 3)
    wrist,            \* landmarks[0]
    max_dist,         \* the local max_dist
    divided,          \* whether line 22 (the division) was executed
    nresult,          \* the returned vector
    npc,              \* the statement to execute next, "done" or "raised"
    \* the script, top to bottom
    pc,               \* the statement to execute next, or how the run ended
    source,           \* DATA_FILE on disk: "present" or "missing"
    dirs,             \* directories created
    files,            \* paths written
    classes_file,     \* the list dumped to classes.json
    raw_data,         \* the records of DATA_FILE the loop has visited
    X,                \* the list, then array, of normalised samples
    y,                \* the list, then array, of labels
    x_array,          \* "list", then what np.array(X) is: "matrix" or "object"
    CLASSES,          \* label_encoder.classes_
    y_encoded,        \* the class id of every sample
    train_idx,        \* rows of the training partition
    test_idx,         \* rows of the evaluation partition
    epochs_run,       \* epochs model.fit has run
    nan_epoch,        \* first epoch whose loss was not finite, 0 when none
    reported,         \* the "ERROR: ... not found!" line was printed
    error,            \* the uncaught exception that ended the run and the
                      \* line of the script it came from, or "none" and 0
    status            \* <<>> while running, then <<exit status>>

normVars == <<flat_landmarks, landmarks, wrist, max_dist, divided, nresult, npc>>
pipeVars == <<pc, source, dirs, files, classes_file, raw_data, X, y, x_array,
              CLASSES, y_encoded, train_idx, test_idx, epochs_run, nan_epoch,
              reported, error, status>>
vars == <<normVars, pipeVars>>

\* The script before its first statement, apart from the input file.
PipeStart ==
    /\ pc = "makedirs"
    /\ dirs = {}
    /\ files = {}
    /\ classes_file = <<>>
    /\ raw_data = <<>>
    /\ X = <<>>
    /\ y = <<>>
    /\ x_array = "list"
    /\ CLASSES = <<>>
    /\ y_encoded = <<>>
    /\ train_idx = {}
    /\ test_idx = {}
    /\ epochs_run = 0
    /\ nan_epoch = 0
    /\ reported = FALSE
    /\ error = [exc |-> "none", line |-> 0]
    /\ status = <<>>

\* normalize_landmarks not being called.
NormIdle ==
    /\ flat_landmarks = <<>>
    /\ landmarks = <<>>
    /\ wrist = <<>>
    /\ max_dist = 0
    /\ divided = FALSE
    /\ nresult = <<>>
    /\ npc = "idle"

(***************************************************************************)
(* Floating point.  numpy computes in IEEE-754 binary64: 53 significand    *)
(* bits, round to nearest, ties to even, gradual underflow, overflow to    *)
(* infinity.  The model keeps these rules at a reduced width.  A finite    *)
(* float is the integer number of "units" it holds, one unit being the     *)
(* spacing of the subnormals (2^-FracBits); 1.0 is One units.  A magnitude *)
(* k is representable when k < 2^Prec, or when k is a multiple of          *)
(* 2^(BitLen(k) - Prec); the largest finite magnitude is MaxFinite.        *)
(***************************************************************************)
Prec == 6
FracBits == 12
MaxShift == 9

RECURSIVE Pow2(_)
Pow2(n) == IF n <= 0 THEN 1 ELSE 2 * Pow2(n - 1)

One == Pow2(FracBits)
MinNormal == Pow2(Prec - 1)
MaxFinite == (Pow2(Prec) - 1) * Pow2(MaxShift)
\* +infinity (a square or a sum of squares that overflows) and NaN (0/0),
\* held as two integers above every finite magnitude.
Inf == MaxFinite + 1
NaN == MaxFinite + 2

Abs(x) == IF x < 0 THEN -x ELSE x
Sign(x) == IF x < 0 THEN -1 ELSE 1

RECURSIVE BitLen(_)
BitLen(k) == IF k <= 0 THEN 0 ELSE 1 + BitLen(k \div 2)

\* Spacing of the floats in the binade of magnitude k.
Spacing(k) == Pow2(BitLen(k) - Prec)

\* Round the non-negative rational num/den (in units) to the nearest float,
\* ties to even; a result above MaxFinite is +infinity.
RoundNearest(num, den) ==
    LET s == Spacing(num \div den)
        d == den * s
        m == num \div d
        r == num - m * d
        up == (2 * r > d) \/ (2 * r = d /\ m % 2 = 1)
        k == (IF up THEN m + 1 ELSE m) * s
    IN  IF k > MaxFinite THEN Inf ELSE k

\* a - b of two finite floats.
FSub(a, b) ==
    LET d == a - b
        k == RoundNearest(Abs(d), 1)
    IN  Sign(d) * k

\* a + b of two non-negative floats.
FAdd(a, b) ==
    IF a = Inf \/ b = Inf THEN Inf ELSE RoundNearest(a + b, 1)

\* a * a of a finite float (a square that lies above every finite float is
\* recognised before it is multiplied out).
FSquare(a) ==
    IF (Abs(a) \div One) * Abs(a) > MaxFinite + Spacing(MaxFinite) THEN Inf
    ELSE RoundNearest(a * a, One)

RECURSIVE ISqrtIn(_, _, _)
ISqrtIn(n, lo, hi) ==
    IF lo >= hi THEN lo
    ELSE LET mid == (lo + hi + 1) \div 2
         IN  IF mid <= n \div mid THEN ISqrtIn(n, mid, hi)
                               ELSE ISqrtIn(n, lo, mid - 1)

\* floor of the square root of n.
ISqrt(n) == ISqrtIn(n, 0, Pow2((BitLen(n) + 1) \div 2))

\* Correctly rounded square root of a non-negative float.
FSqrt(a) ==
    IF a = Inf THEN Inf
    ELSE LET n == a * One
             f == ISqrt(n)
             s == Spacing(f)
             lo == (f \div s) * s
             up == IF s = 1
                   THEN n > lo * lo + lo
                   ELSE LET mid == lo + s \div 2
                        IN  (n > mid * mid)
                            \/ (n = mid * mid /\ (lo \div s) % 2 = 1)
         IN  IF up THEN lo + s ELSE lo

\* a / b of a finite float by a non-negative float.  numpy does not raise on
\* a zero divisor: 0/0 is NaN and x/0 is an infinity (with a warning).
FDiv(a, b) ==
    IF b = NaN THEN NaN
    ELSE IF b = 0 THEN (IF a = 0 THEN NaN ELSE Sign(a) * Inf)
    ELSE IF b = Inf THEN 0
    ELSE Sign(a) * RoundNearest(Abs(a) * One, b)

(***************************************************************************)
(* normalize_landmarks (train_model.py lines 16-23).  A flat sample is a   *)
(* sequence of floats; the landmark matrix is a sequence of rows of 3.     *)
(***************************************************************************)
FeatureWidth == 63
Row(flat, k) == <<flat[3 * k - 2], flat[3 * k - 1], flat[3 * k]>>

CanReshapeAlways(flat) == TRUE

\* np.array(flat).reshape(-1, 3) raises ValueError unless 3 divides the size.
CanReshape(flat) == Len(flat) % 3 = 0
Reshape(flat) == [k \in 1..(Len(flat) \div 3) |-> Row(flat, k)]

\* landmarks[0] raises IndexError on a matrix of no rows.
HasWrist(lm) == Len(lm) > 0

TranslateLast(lm, w) ==
    [k \in 1..Len(lm) |-> <<FSub(lm[k][1], lm[Len(lm)][1]),
                            FSub(lm[k][2], lm[Len(lm)][2]),
                            FSub(lm[k][3], lm[Len(lm)][3])>>]

\* landmarks - wrist, broadcast over the rows.
Translate(lm, w) ==
    [k \in 1..Len(lm) |-> <<FSub(lm[k][1], w[1]),
                            FSub(lm[k][2], w[2]),
                            FSub(lm[k][3], w[3])>>]

\* np.linalg.norm(., axis=1) of one row: sqrt(add.reduce(x * x)).
RowSumSq(row) == FAdd(FAdd(FSquare(row[1]), FSquare(row[2])), FSquare(row[3]))
RowNorm(row) == FSqrt(RowSumSq(row))

RECURSIVE MaxOf(_, _)
MaxOf(f, n) ==
    IF n = 1 THEN f[1]
    ELSE LET m == MaxOf(f, n - 1) IN IF f[n] > m THEN f[n] ELSE m

MaxDistNoSqrt(lm) == MaxOf([k \in 1..Len(lm) |-> RowSumSq(lm[k])], Len(lm))

\* np.max(np.linalg.norm(landmarks, axis=1))
MaxDist(lm) == MaxOf([k \in 1..Len(lm) |-> RowNorm(lm[k])], Len(lm))

ScaleGuardAlways(md) == TRUE

\* if max_dist > 0:
ScaleGuard(md) == md > 0

\* landmarks / max_dist
Scale(lm, md) ==
    [k \in 1..Len(lm) |-> <<FDiv(lm[k][1], md),
                            FDiv(lm[k][2], md),
                            FDiv(lm[k][3], md)>>]

\* landmarks.flatten(): row-major.
Flatten(lm) ==
    [i \in 1..(3 * Len(lm)) |-> lm[((i - 1) \div 3) + 1][((i - 1) % 3) + 1]]

\* The whole function: the exception it raises ("none" when it returns), the
\* returned vector, and whether the division of line 22 was executed.
normalize_landmarks(flat) ==
    IF ~CanReshape(flat)
    THEN [err |-> "ValueError", out |-> <<>>, divided |-> FALSE]
    ELSE IF ~HasWrist(Reshape(flat))
    THEN [err |-> "IndexError", out |-> <<>>, divided |-> FALSE]
    ELSE LET t == Translate(Reshape(flat), Reshape(flat)[1])
             md == MaxDist(t)
         IN  IF ScaleGuard(md)
             THEN [err |-> "none", out |-> Flatten(Scale(t, md)), divided |-> TRUE]
             ELSE [err |-> "none", out |-> Flatten(t), divided |-> FALSE]

(***************************************************************************)
(* normalize_landmarks run statement by statement on inputs drawn from a   *)
(* bounded family: landmark 0 is w, the last landmark is p, every other    *)
(* landmark is r.                                                          *)
(***************************************************************************)
Coords == {0, 1, One \div 4, One \div 2, (3 * One) \div 4, One, MaxFinite}
Points == {<<a, b, c>> : a \in Coords, b \in Coords, c \in Coords}
Wrists == {<<0, 0, 0>>, <<One, One, One>>}
Others == {<<One \div 2, 0, One>>}

MakeSample(w, p, r, n) ==
    [i \in 1..n |->
        LET k == ((i - 1) \div 3) + 1
            c == ((i - 1) % 3) + 1
        IN  IF k = 1 THEN w[c]
            ELSE IF k = (n + 2) \div 3 THEN p[c]
            ELSE r[c]]

\* Lengths tried: the 63 of a well-formed sample, another multiple of 3,
\* a length 3 does not divide, and the empty list.
Widths == {FeatureWidth, FeatureWidth - 3, FeatureWidth - 1, 0}

InitNorm ==
    /\ \E w \in Wrists, p \in Points, r \in Others \cup Wrists :
          \E n \in Widths :
             /\ n # FeatureWidth => (p = w /\ r = w)
             /\ flat_landmarks = MakeSample(w, p, r, n)
    /\ landmarks = <<>>
    /\ wrist = <<>>
    /\ max_dist = 0
    /\ divided = FALSE
    /\ nresult = <<>>
    /\ npc = "reshape"
    /\ source = "present"
    /\ PipeStart

\* line 17
NReshape ==
    /\ npc = "reshape"
    /\ CanReshape(flat_landmarks)
    /\ landmarks' = Reshape(flat_landmarks)
    /\ npc' = "wrist"
    /\ UNCHANGED <<flat_landmarks, wrist, max_dist, divided, nresult, pipeVars>>

NReshapeRaises ==
    /\ npc = "reshape"
    /\ ~CanReshape(flat_landmarks)
    /\ npc' = "raised"
    /\ UNCHANGED <<flat_landmarks, landmarks, wrist, max_dist, divided, nresult, pipeVars>>

\* line 18
NWrist ==
    /\ npc = "wrist"
    /\ HasWrist(landmarks)
    /\ wrist' = landmarks[1]
    /\ npc' = "translate"
    /\ UNCHANGED <<flat_landmarks, landmarks, max_dist, divided, nresult, pipeVars>>

NWristRaises ==
    /\ npc = "wrist"
    /\ ~HasWrist(landmarks)
    /\ npc' = "raised"
    /\ UNCHANGED <<flat_landmarks, landmarks, wrist, max_dist, divided, nresult, pipeVars>>

\* line 19
NTranslate ==
    /\ npc = "translate"
    /\ landmarks' = Translate(landmarks, wrist)
    /\ npc' = "max_dist"
    /\ UNCHANGED <<flat_landmarks, wrist, max_dist, divided, nresult, pipeVars>>

\* line 20
NMaxDist ==
    /\ npc = "max_dist"
    /\ max_dist' = MaxDist(landmarks)
    /\ npc' = "scale"
    /\ UNCHANGED <<flat_landmarks, landmarks, wrist, divided, nresult, pipeVars>>

\* lines 21-22, the branch taken
NScale ==
    /\ npc = "scale"
    /\ ScaleGuard(max_dist)
    /\ landmarks' = Scale(landmarks, max_dist)
    /\ divided' = TRUE
    /\ npc' = "return"
    /\ UNCHANGED <<flat_landmarks, wrist, max_dist, nresult, pipeVars>>

\* line 21, the branch not taken
NNoScale ==
    /\ npc = "scale"
    /\ ~ScaleGuard(max_dist)
    /\ npc' = "return"
    /\ UNCHANGED <<flat_landmarks, landmarks, wrist, max_dist, divided, nresult, pipeVars>>

\* line 23
NReturn ==
    /\ npc = "return"
    /\ nresult' = Flatten(landmarks)
    /\ npc' = "done"
    /\ UNCHANGED <<flat_landmarks, landmarks, wrist, max_dist, divided, pipeVars>>

NextNorm ==
    \/ NReshape
    \/ NReshapeRaises
    \/ NWrist
    \/ NWristRaises
    \/ NTranslate
    \/ NMaxDist
    \/ NScale
    \/ NNoScale
    \/ NReturn

SpecNorm == InitNorm /\ [][NextNorm]_vars

(***************************************************************************)
(* Properties of normalize_landmarks (specification SpecNorm).                *)
(***************************************************************************)
\* The call returned and its argument had the 63 values of a sample.
Returned63 == npc = "done" /\ Len(flat_landmarks) = FeatureWidth

\* Every landmark of the argument equals landmark 0.
Degenerate(flat) == \A k \in 1..(Len(flat) \div 3) : Row(flat, k) = Row(flat, 1)

\* The offset of coordinate i from the same coordinate of landmark 0.
Offset(flat, i) == FSub(flat[i], flat[((i - 1) % 3) + 1])

\* The largest per-landmark norm of the returned vector, measured as the
\* function itself measures norms.
OutMaxNorm ==
    LET n == Len(nresult) \div 3
        sumsq(k) == FAdd(FAdd(FSquare(nresult[3 * k - 2]), FSquare(nresult[3 * k - 1])),
                         FSquare(nresult[3 * k]))
    IN  MaxOf([k \in 1..n |-> FSqrt(sumsq(k))], n)

\* The spacing of the floats just above 1.0.
UlpOne == One \div Pow2(Prec - 1)

\* No squared offset underflows (it is zero or a normal number) and no sum of
\* squares overflows.
InRange ==
    /\ max_dist < Inf
    /\ \A i \in 1..Len(flat_landmarks) :
          \/ Offset(flat_landmarks, i) = 0
          \/ FSquare(Offset(flat_landmarks, i)) >= MinNormal

\* C4: for a 63-value input the function returns 63 values, entry i being the
\* (scaled) offset of input entry i from the anchor, so in the input's landmark
\* order, and the three entries of landmark 0 are exactly 0.
C4_AnchorIsOrigin ==
    Returned63 =>
        /\ Len(nresult) = FeatureWidth
        /\ nresult[1] = 0 /\ nresult[2] = 0 /\ nresult[3] = 0
        /\ \A i \in 1..FeatureWidth :
              nresult[i] = IF divided
                           THEN FDiv(Offset(flat_landmarks, i), max_dist)
                           ELSE Offset(flat_landmarks, i)

C4_Witness ==
    /\ Returned63
    /\ ~Degenerate(flat_landmarks)
    /\ flat_landmarks[1] # 0
    /\ divided

\* C5 as claimed: whenever some landmark differs from the anchor, the largest
\* per-landmark norm of the result is exactly 1.0.
C5_ExactlyOne ==
    (Returned63 /\ ~Degenerate(flat_landmarks)) => OutMaxNorm = One

\* C5 amended: whenever some landmark differs from the anchor and the squared
\* offsets neither underflow nor overflow, the division is performed and the
\* largest per-landmark norm of the result is within 4 ulp of 1.0.
C5_WithinTolerance ==
    (Returned63 /\ ~Degenerate(flat_landmarks) /\ InRange) =>
        /\ divided
        /\ Abs(OutMaxNorm - One) <= 4 * UlpOne

C5_Witness ==
    /\ Returned63
    /\ ~Degenerate(flat_landmarks)
    /\ InRange
    /\ OutMaxNorm # One

\* C6: when every landmark equals the anchor, max_dist is 0, the division is
\* not executed, nothing is raised and the result is the all-zero vector.
C6_DegenerateIsZero ==
    (Len(flat_landmarks) = FeatureWidth /\ Degenerate(flat_landmarks)) =>
        /\ npc # "raised"
        /\ ~divided
        /\ npc \in {"scale", "return", "done"} => max_dist = 0
        /\ npc = "done" =>
              /\ Len(nresult) = FeatureWidth
              /\ \A i \in 1..FeatureWidth : nresult[i] = 0

C6_Witness ==
    /\ Returned63
    /\ Degenerate(flat_landmarks)
    /\ flat_landmarks[1] # 0

(***************************************************************************)
(* Labels and samples.  A label is a string, held as the sequence of its   *)
(* code points; a sample is one record of DATA_FILE, a JSON object that    *)
(* may lack either key.                                                    *)
(***************************************************************************)
LabelA == <<65>>
LabelB == <<66>>
LabelAB == <<65, 66>>

Sample(f, l) == [has_features |-> TRUE, features |-> f, has_label |-> TRUE, label |-> l]
NoFeatures(l) == [has_features |-> FALSE, features |-> <<>>, has_label |-> TRUE, label |-> l]
NoLabel(f) == [has_features |-> TRUE, features |-> f, has_label |-> FALSE, label |-> <<>>]

GoodFeatures ==
    MakeSample(<<One, One, One>>, <<One, One \div 2, 0>>, <<One \div 2, 0, One>>, FeatureWidth)
ShortFeatures ==
    MakeSample(<<One, One, One>>, <<One, One \div 2, 0>>, <<One \div 2, 0, One>>, FeatureWidth - 3)
OddFeatures ==
    MakeSample(<<One, One, One>>, <<One, One \div 2, 0>>, <<One \div 2, 0, One>>, FeatureWidth - 1)

\* The records the loop may meet: well-formed ones, one of another arity that
\* still reshapes, and the malformed ones.
Samples ==
    {Sample(GoodFeatures, LabelB), Sample(GoodFeatures, LabelA),
     Sample(ShortFeatures, LabelA), Sample(OddFeatures, LabelA),
     Sample(<<>>, LabelA), NoFeatures(LabelA), NoLabel(GoodFeatures)}

(***************************************************************************)
(* LabelEncoder.fit_transform (line 48): classes_ is np.unique(y), the     *)
(* distinct labels in ascending code-point order; y_encoded holds each     *)
(* label's position in classes_, from 0.                                   *)
(***************************************************************************)
RECURSIVE LexLess(_, _)
LexLess(a, b) ==
    IF a = <<>> THEN b # <<>>
    ELSE IF b = <<>> THEN FALSE
    ELSE IF Head(a) # Head(b) THEN Head(a) < Head(b)
    ELSE LexLess(Tail(a), Tail(b))

RECURSIVE SortSet(_)
SortSet(S) ==
    IF S = {} THEN <<>>
    ELSE LET m == CHOOSE a \in S : \A b \in S \ {a} : LexLess(a, b)
         IN  <<m>> \o SortSet(S \ {m})

RECURSIVE FirstSeen(_)
FirstSeen(labels) ==
    IF labels = <<>> THEN <<>>
    ELSE LET n == Len(labels)
             r == FirstSeen(SubSeq(labels, 1, n - 1))
         IN  IF \E i \in 1..(n - 1) : labels[i] = labels[n]
             THEN r ELSE Append(r, labels[n])

\* label_encoder.classes_
Classes(labels) == SortSet({labels[i] : i \in 1..Len(labels)})

IndexOf(seq, v) == CHOOSE i \in 1..Len(seq) : seq[i] = v

\* label_encoder.fit_transform(y)
FitTransform(labels) ==
    [i \in 1..Len(labels) |-> IndexOf(Classes(labels), labels[i]) - 1]

(***************************************************************************)
(* train_test_split(X, y_encoded, test_size=0.2, random_state=42,          *)
(* stratify=y_encoded) (line 55), as scikit-learn's StratifiedShuffleSplit *)
(* computes it.  The draws of the seeded generator (tie-breaks and         *)
(* permutations) are left open: every outcome some draw gives is allowed.  *)
(***************************************************************************)
\* test_size = 0.2 = 1/TestSizeDen; n_test = ceil(test_size * n_samples).
TestSizeDen == 5
NTest(n) == (n + TestSizeDen - 1) \div TestSizeDen
NTrain(n) == n - NTest(n)

ClassIds(ye) == {ye[i] : i \in 1..Len(ye)}
RowsOf(ye, c) == {i \in 1..Len(ye) : ye[i] = c}
ClassCounts(ye) == [c \in ClassIds(ye) |-> Cardinality(RowsOf(ye, c))]

RECURSIVE SumOver(_, _)
SumOver(f, S) ==
    IF S = {} THEN 0
    ELSE LET c == CHOOSE c \in S : TRUE IN f[c] + SumOver(f, S \ {c})

SplitRaisesOnSizesOnly(ye) ==
    \/ NTrain(Len(ye)) = 0
    \/ NTrain(Len(ye)) < Cardinality(ClassIds(ye))
    \/ NTest(Len(ye)) < Cardinality(ClassIds(ye))

\* The checks that make the split raise ValueError.
SplitRaisesOn(ye) ==
    \/ NTrain(Len(ye)) = 0
    \/ \E c \in ClassIds(ye) : ClassCounts(ye)[c] < 2
    \/ NTrain(Len(ye)) < Cardinality(ClassIds(ye))
    \/ NTest(Len(ye)) < Cardinality(ClassIds(ye))

\* _approximate_mode(class_counts, n_draws, rng): each class gets the floor of
\* its proportional share, and the draws still missing go to the classes
\* with the largest remainders, ties broken by the generator.
ApproximateMode(counts, n_draws) ==
    LET cls == DOMAIN counts
        total == SumOver(counts, cls)
        floored == [c \in cls |-> (counts[c] * n_draws) \div total]
        rem == [c \in cls |-> (counts[c] * n_draws) % total]
        need == n_draws - SumOver(floored, cls)
    IN  {[c \in cls |-> floored[c] + (IF c \in S THEN 1 ELSE 0)] :
            S \in {T \in SUBSET cls :
                     /\ Cardinality(T) = need
                     /\ \A a \in T, b \in cls \ T : rem[a] >= rem[b]}}

\* Every <<train, test>> the split may return for the class ids ye: of each
\* class, a permutation's first n_i rows train and its next t_i rows test.
SplitOutcomes(ye) ==
    LET counts == ClassCounts(ye)
        cls == ClassIds(ye)
        rows == 1..Len(ye)
        Pick(avail, k) ==
            {T \in SUBSET avail :
                \A c \in cls : Cardinality(T \cap RowsOf(ye, c)) = k[c]}
    IN  UNION {UNION {UNION {{<<tr, te>> : te \in Pick(rows \ tr, t_i)} :
                             tr \in Pick(rows, n_i)} :
                      t_i \in ApproximateMode([c \in cls |-> counts[c] - n_i[c]],
                                              NTest(Len(ye)))} :
               n_i \in ApproximateMode(counts, NTrain(Len(ye)))}

(***************************************************************************)
(* The script, top to bottom.                                              *)
(***************************************************************************)
MaxRecords == 6
Epochs == 50
\* The epochs tried for the first non-finite loss: none, the first, the last.
NanEpochs == {0, 1, Epochs}

MODEL_DIR == "public/model"
WorkingDir == "."
ClassesPath == [dir |-> MODEL_DIR, name |-> "classes.json"]
ModelPathInModelDir == [dir |-> MODEL_DIR, name |-> "model_v2.h5"]
ModelPath == [dir |-> WorkingDir, name |-> "model_v2.h5"]

Init ==
    /\ source \in {"present", "missing"}
    /\ PipeStart
    /\ NormIdle

\* An uncaught exception: the traceback is printed and the status is 1.
Crash(e, l) ==
    /\ pc' = "crashed"
    /\ error' = [exc |-> e, line |-> l]
    /\ status' = <<1>>

\* line 13
MakeDirs ==
    /\ pc = "makedirs"
    /\ dirs' = dirs \cup {MODEL_DIR}
    /\ pc' = "load"
    /\ UNCHANGED <<source, files, classes_file, raw_data, X, y, x_array, CLASSES,
                   y_encoded, train_idx, test_idx, epochs_run, nan_epoch,
                   reported, error, status, normVars>>

\* lines 26-29
Load ==
    /\ pc = "load"
    /\ source = "present"
    /\ pc' = "loop"
    /\ UNCHANGED <<source, dirs, files, classes_file, raw_data, X, y, x_array,
                   CLASSES, y_encoded, train_idx, test_idx, epochs_run,
                   nan_epoch, reported, error, status, normVars>>

\* lines 30-32: the message, then exit() with no argument, which is status 0.
LoadMissing ==
    /\ pc = "load"
    /\ source = "missing"
    /\ reported' = TRUE
    /\ status' = <<0>>
    /\ pc' = "exited"
    /\ UNCHANGED <<source, dirs, files, classes_file, raw_data, X, y, x_array,
                   CLASSES, y_encoded, train_idx, test_idx, epochs_run,
                   nan_epoch, error, normVars>>

\* lines 38-41, one iteration of the loop over the next record of the file.
Preprocess ==
    /\ pc = "loop"
    /\ Len(raw_data) < MaxRecords
    /\ \E sample \in Samples :
         /\ raw_data' = Append(raw_data, sample)
         /\ IF ~sample.has_features
            THEN Crash("KeyError", 39) /\ UNCHANGED <<X, y>>
            ELSE LET r == normalize_landmarks(sample.features)
                 IN  IF r.err # "none"
                     THEN Crash(r.err, 39) /\ UNCHANGED <<X, y>>
                     ELSE IF ~sample.has_label
                     THEN /\ X' = Append(X, r.out)
                          /\ Crash("KeyError", 41)
                          /\ UNCHANGED y
                     ELSE /\ X' = Append(X, r.out)
                          /\ y' = Append(y, sample.label)
                          /\ UNCHANGED <<pc, error, status>>
    /\ UNCHANGED <<source, dirs, files, classes_file, x_array, CLASSES,
                   y_encoded, train_idx, test_idx, epochs_run, nan_epoch,
                   reported, normVars>>

\* The rows of X do not all have one length.
Ragged == \E i \in 1..Len(X), j \in 1..Len(X) : Len(X[i]) # Len(X[j])

\* lines 43-44, the file exhausted and the rows of one length
MakeArrays ==
    /\ pc = "loop"
    /\ ~Ragged
    /\ x_array' = "matrix"
    /\ pc' = "encode"
    /\ UNCHANGED <<source, dirs, files, classes_file, raw_data, X, y, CLASSES,
                   y_encoded, train_idx, test_idx, epochs_run, nan_epoch,
                   reported, error, status, normVars>>

\* line 43 on rows of different lengths: numpy before 1.24 builds an array
\* of objects (with a warning)
MakeArraysOfObjects ==
    /\ pc = "loop"
    /\ Ragged
    /\ x_array' = "object"
    /\ pc' = "encode"
    /\ UNCHANGED <<source, dirs, files, classes_file, raw_data, X, y, CLASSES,
                   y_encoded, train_idx, test_idx, epochs_run, nan_epoch,
                   reported, error, status, normVars>>

\* line 43 on rows of different lengths: numpy from 1.24 raises ValueError
MakeArraysRaises ==
    /\ pc = "loop"
    /\ Ragged
    /\ Crash("ValueError", 43)
    /\ UNCHANGED <<source, dirs, files, classes_file, raw_data, X, y, x_array,
                   CLASSES, y_encoded, train_idx, test_idx, epochs_run,
                   nan_epoch, reported, normVars>>

\* lines 47-50
EncodeLabels ==
    /\ pc = "encode"
    /\ CLASSES' = Classes(y)
    /\ y_encoded' = FitTransform(y)
    /\ pc' = "dump"
    /\ UNCHANGED <<source, dirs, files, classes_file, raw_data, X, y, x_array,
                   train_idx, test_idx, epochs_run, nan_epoch, reported, error,
                   status, normVars>>

\* lines 52-53
DumpClasses ==
    /\ pc = "dump"
    /\ ClassesPath.dir \in dirs
    /\ files' = files \cup {ClassesPath}
    /\ classes_file' = CLASSES
    /\ pc' = "split"
    /\ UNCHANGED <<source, dirs, raw_data, X, y, x_array, CLASSES, y_encoded,
                   train_idx, test_idx, epochs_run, nan_epoch, reported, error,
                   status, normVars>>

\* line 55
Split ==
    /\ pc = "split"
    /\ ~SplitRaisesOn(y_encoded)
    /\ \E o \in SplitOutcomes(y_encoded) :
         /\ train_idx' = o[1]
         /\ test_idx' = o[2]
    /\ pc' = "model"
    /\ UNCHANGED <<source, dirs, files, classes_file, raw_data, X, y, x_array,
                   CLASSES, y_encoded, epochs_run, nan_epoch, reported, error,
                   status, normVars>>

SplitRaises ==
    /\ pc = "split"
    /\ SplitRaisesOn(y_encoded)
    /\ Crash("ValueError", 55)
    /\ UNCHANGED <<source, dirs, files, classes_file, raw_data, X, y, x_array,
                   CLASSES, y_encoded, train_idx, test_idx, epochs_run,
                   nan_epoch, reported, normVars>>

\* lines 58-68
BuildModel ==
    /\ pc = "model"
    /\ pc' = "fit"
    /\ UNCHANGED <<source, dirs, files, classes_file, raw_data, X, y, x_array,
                   CLASSES, y_encoded, train_idx, test_idx, epochs_run,
                   nan_epoch, reported, error, status, normVars>>

\* The rows fit the model's Input(shape=(63,)).
FitsInput == x_array = "matrix" /\ \A i \in 1..Len(X) : Len(X[i]) = FeatureWidth

\* The epochs model.fit runs when the loss is first non-finite in epoch k
\* (0: never): there is no callback that stops on it.
EpochsRunStopOnNaN(k) == IF k = 0 THEN Epochs ELSE k
EpochsRun(k) == Epochs

\* line 72
Fit ==
    /\ pc = "fit"
    /\ FitsInput
    /\ \E k \in NanEpochs :
         /\ nan_epoch' = k
         /\ epochs_run' = EpochsRun(k)
    /\ pc' = "save"
    /\ UNCHANGED <<source, dirs, files, classes_file, raw_data, X, y, x_array,
                   CLASSES, y_encoded, train_idx, test_idx, reported, error,
                   status, normVars>>

\* line 72 on rows the input layer does not accept
FitRaises ==
    /\ pc = "fit"
    /\ ~FitsInput
    /\ Crash("ValueError", 72)
    /\ UNCHANGED <<source, dirs, files, classes_file, raw_data, X, y, x_array,
                   CLASSES, y_encoded, train_idx, test_idx, epochs_run,
                   nan_epoch, reported, normVars>>

SaveBeforeFit ==
    /\ pc = "fit"
    /\ files' = files \cup {ModelPath}
    /\ pc' = "end"
    /\ status' = <<0>>
    /\ UNCHANGED <<source, dirs, classes_file, raw_data, X, y, x_array, CLASSES,
                   y_encoded, train_idx, test_idx, epochs_run, nan_epoch,
                   reported, error, normVars>>

\* lines 75-77, and the script ends: status 0
Save ==
    /\ pc = "save"
    /\ files' = files \cup {ModelPath}
    /\ pc' = "end"
    /\ status' = <<0>>
    /\ UNCHANGED <<source, dirs, classes_file, raw_data, X, y, x_array, CLASSES,
                   y_encoded, train_idx, test_idx, epochs_run, nan_epoch,
                   reported, error, normVars>>

Next ==
    \/ MakeDirs
    \/ Load
    \/ LoadMissing
    \/ Preprocess
    \/ MakeArrays
    \/ MakeArraysOfObjects
    \/ MakeArraysRaises
    \/ EncodeLabels
    \/ DumpClasses
    \/ Split
    \/ SplitRaises
    \/ BuildModel
    \/ Fit
    \/ FitRaises
    \/ Save

Spec == Init /\ [][Next]_vars

(***************************************************************************)
(* The label encoding and the split on their own, from the states in which *)
(* the script reaches them with well-formed samples of the given labels.   *)
(***************************************************************************)
MaxEncodeRecords == 4
MaxSplitRecords == 9

RECURSIVE SeqsUpTo(_, _)
SeqsUpTo(S, n) ==
    IF n = 0 THEN {<<>>}
    ELSE LET shorter == SeqsUpTo(S, n - 1)
         IN  shorter \cup {Append(q, a) : q \in {r \in shorter : Len(r) = n - 1}, a \in S}

GoodNormalized == normalize_landmarks(GoodFeatures).out

\* The script about to execute line 47 after a loop over well-formed samples
\* with these labels.
AtEncode(labels) ==
    /\ pc = "encode"
    /\ source = "present"
    /\ dirs = {MODEL_DIR}
    /\ files = {}
    /\ classes_file = <<>>
    /\ raw_data = [i \in 1..Len(labels) |-> Sample(GoodFeatures, labels[i])]
    /\ X = [i \in 1..Len(labels) |-> GoodNormalized]
    /\ y = labels
    /\ x_array = "matrix"
    /\ CLASSES = <<>>
    /\ y_encoded = <<>>
    /\ train_idx = {}
    /\ test_idx = {}
    /\ epochs_run = 0
    /\ nan_epoch = 0
    /\ reported = FALSE
    /\ error = [exc |-> "none", line |-> 0]
    /\ status = <<>>

InitEncode ==
    /\ \E labels \in SeqsUpTo({LabelB, LabelA, LabelAB}, MaxEncodeRecords) :
          AtEncode(labels)
    /\ NormIdle

NextEncode ==
    \/ EncodeLabels
    \/ DumpClasses

SpecEncode == InitEncode /\ [][NextEncode]_vars

\* The script about to execute line 55 after the same loop.
AtSplit(labels) ==
    /\ pc = "split"
    /\ source = "present"
    /\ dirs = {MODEL_DIR}
    /\ files = {ClassesPath}
    /\ classes_file = Classes(labels)
    /\ raw_data = [i \in 1..Len(labels) |-> Sample(GoodFeatures, labels[i])]
    /\ X = [i \in 1..Len(labels) |-> GoodNormalized]
    /\ y = labels
    /\ x_array = "matrix"
    /\ CLASSES = Classes(labels)
    /\ y_encoded = FitTransform(labels)
    /\ train_idx = {}
    /\ test_idx = {}
    /\ epochs_run = 0
    /\ nan_epoch = 0
    /\ reported = FALSE
    /\ error = [exc |-> "none", line |-> 0]
    /\ status = <<>>

InitSplit ==
    /\ \E labels \in SeqsUpTo({LabelB, LabelA}, MaxSplitRecords) : AtSplit(labels)
    /\ NormIdle

NextSplit ==
    \/ Split
    \/ SplitRaises

SpecSplit == InitSplit /\ [][NextSplit]_vars

(***************************************************************************)
(* Properties of the script (specification Spec).                             *)
(***************************************************************************)
Ended == status # <<>>
Fitted == epochs_run = Epochs

\* C1: when DATA_FILE does not exist the run reports the error and ends with
\* a non-zero exit status, and nothing has been preprocessed, encoded, split,
\* trained or written.
C1_MissingSourceIsFatal ==
    (source = "missing" /\ Ended) =>
        /\ reported
        /\ status # <<0>>
        /\ pc = "exited"
        /\ raw_data = <<>> /\ X = <<>> /\ CLASSES = <<>>
        /\ train_idx = {} /\ test_idx = {}
        /\ epochs_run = 0
        /\ files = {}

\* C2 as claimed: in a run that completes, both artifacts are on disk and both
\* lie in the one directory MODEL_DIR.
C2_BothUnderModelDir ==
    pc = "end" =>
        /\ {f.name : f \in files} = {ClassesPath.name, ModelPath.name}
        /\ \A f \in files : f.dir = MODEL_DIR

\* C2 amended: in a run that completes, exactly two files have been written:
\* classes.json in MODEL_DIR, which exists, and model_v2.h5 in the working
\* directory, which is not MODEL_DIR.
C2_VocabularyUnderModelDirModelInWorkingDir ==
    pc = "end" =>
        /\ {f.name : f \in files} = {"classes.json", "model_v2.h5"}
        /\ Cardinality(files) = 2
        /\ MODEL_DIR \in dirs
        /\ \A f \in files :
              /\ f.name = "classes.json" => f.dir = "public/model"
              /\ f.name = "model_v2.h5" => f.dir = "."

C2_Witness ==
    /\ pc = "end"
    /\ Len(CLASSES) = 2
    /\ files = {ClassesPath, ModelPath}

\* C3 as claimed: in every state in which an artifact file exists, the split
\* and the training have completed.
C3_NoArtifactBeforeTraining ==
    files # {} => (train_idx # {} /\ Fitted)

\* C3 amended: the model file exists only once the split and the training
\* have completed; the vocabulary file exists from right after the label
\* encoding on, so already when the split starts, and never before the
\* encoding.
C3_ModelAfterTrainingVocabularyAfterEncoding ==
    /\ ModelPath \in files => (train_idx # {} /\ test_idx # {} /\ Fitted)
    /\ ClassesPath \in files =>
          (x_array # "list" /\ CLASSES = Classes(y) /\ classes_file = CLASSES)
    /\ pc \in {"split", "model", "fit", "save", "end"} => ClassesPath \in files
    /\ pc \in {"makedirs", "load", "loop", "encode", "dump", "exited"} => files = {}

C3_Witness ==
    /\ pc = "split"
    /\ files = {ClassesPath}
    /\ epochs_run = 0
    /\ Len(CLASSES) = 2

\* A record that lacks a key or whose features are not 63 values.
Malformed(r) == ~r.has_features \/ ~r.has_label \/ Len(r.features) # FeatureWidth

\* A record that lacks a key or whose features do not reshape to rows of 3
\* with a row 0.
Unloadable(r) ==
    \/ ~r.has_features
    \/ ~r.has_label
    \/ Len(r.features) % 3 # 0
    \/ Len(r.features) = 0

\* C9 as claimed: as soon as the loop has visited a malformed record the run
\* has failed in the loop, the record has not been normalised into X, and no
\* later stage is reached.
C9_MalformedRecordStopsLoading ==
    \A i \in 1..Len(raw_data) :
        Malformed(raw_data[i]) =>
            /\ pc = "crashed"
            /\ error.line \in {39, 41}
            /\ Len(X) < i

\* C9 amended: a record that lacks `features`, lacks `label`, or whose
\* features are empty or of a length 3 does not divide ends the run in the
\* loop, by the uncaught exception of line 39 or 41 and with status 1, before
\* anything is encoded or written; the record without a label has by then
\* been normalised into X.  A record of another wrong length is normalised
\* and appended like a well-formed one, and the run it is in never completes.
C9_UnloadableRecordStopsLoading ==
    /\ \A i \in 1..Len(raw_data) :
          Unloadable(raw_data[i]) =>
              /\ i = Len(raw_data)
              /\ pc = "crashed" /\ status = <<1>>
              /\ error.exc \in {"KeyError", "ValueError", "IndexError"}
              /\ error.line = (IF raw_data[i].has_features /\ ~raw_data[i].has_label
                               THEN 41 ELSE 39)
              /\ Len(X) = (IF error.line = 41 THEN i ELSE i - 1)
              /\ Len(y) = i - 1
              /\ files = {} /\ CLASSES = <<>>
    /\ (\E i \in 1..Len(raw_data) : Malformed(raw_data[i])) =>
          (pc # "end" /\ pc # "save" /\ ModelPath \notin files /\ epochs_run = 0)

C9_Witness ==
    /\ pc = "crashed"
    /\ error = [exc |-> "ValueError", line |-> 72]
    /\ ClassesPath \in files
    /\ train_idx # {}
    /\ \E i \in 1..Len(raw_data) : Len(raw_data[i].features) = FeatureWidth - 3

\* C10 as claimed: once the loss has been non-finite in some epoch the run
\* fails: it never ends with status 0 and the model file is never written;
\* the model file is written only after 50 epochs without such a loss.
C10_NonFiniteLossIsFatal ==
    /\ nan_epoch # 0 => (status # <<0>> /\ ModelPath \notin files)
    /\ ModelPath \in files => (Fitted /\ nan_epoch = 0)

\* C10 amended: the model file is written only by a run whose 50 epochs have
\* all been run; a non-finite loss stops nothing: the 50 epochs are run all
\* the same, no exception ends the run, and the run that reaches its end has
\* written the model file and exits with status 0.
C10_ModelOnlyAfterAllEpochs ==
    /\ ModelPath \in files => epochs_run = 50
    /\ nan_epoch # 0 =>
          /\ epochs_run = 50
          /\ error.exc = "none"
          /\ pc \in {"save", "end"}
          /\ pc = "end" => (ModelPath \in files /\ status = <<0>>)

C10_Witness ==
    /\ pc = "end"
    /\ nan_epoch = 1
    /\ ModelPath \in files

(***************************************************************************)
(* Properties of the label encoding (specification SpecEncode).               *)
(***************************************************************************)
\* C7: once fitted, CLASSES lists exactly the distinct labels of y in strictly
\* ascending order, every y_encoded[i] is an index 0..C-1 that decodes to
\* y[i], and the list written to classes.json is CLASSES itself, so its
\* position i holds the label of class id i.
C7_VocabularyIsSortedBijection ==
    pc \in {"dump", "split"} =>
        /\ \A i \in 1..Len(CLASSES), j \in 1..Len(CLASSES) :
              i < j => LexLess(CLASSES[i], CLASSES[j])
        /\ {CLASSES[i] : i \in 1..Len(CLASSES)} = {y[i] : i \in 1..Len(y)}
        /\ Len(y_encoded) = Len(y)
        /\ \A i \in 1..Len(y) :
              /\ y_encoded[i] \in 0..(Len(CLASSES) - 1)
              /\ CLASSES[y_encoded[i] + 1] = y[i]
        /\ pc = "split" =>
              /\ ClassesPath \in files
              /\ Len(classes_file) = Len(CLASSES)
              /\ \A i \in 1..Len(y) : classes_file[y_encoded[i] + 1] = y[i]

C7_Witness ==
    /\ pc = "split"
    /\ y = <<LabelB, LabelAB, LabelA, LabelB>>
    /\ classes_file = <<LabelA, LabelAB, LabelB>>
    /\ y_encoded = <<2, 1, 0, 2>>

(***************************************************************************)
(* Properties of the split (specification SpecSplit).                         *)
(***************************************************************************)
Holds(part, c) == \E i \in part : y_encoded[i] = c

\* C8 as claimed: after a successful split each partition holds a sample of
\* every class.
C8_EveryClassInBothPartitions ==
    pc = "model" =>
        \A c \in ClassIds(y_encoded) : Holds(train_idx, c) /\ Holds(test_idx, c)

\* C8 amended: after a successful split every class has at least 2 samples,
\* the partitions are disjoint and together hold every row, the evaluation
\* partition has ceil(n/5) rows and at least as many rows as there are
\* classes, and the training partition holds a sample of every class; a
\* class of fewer than 2 samples makes the split raise.
C8_EveryClassInTraining ==
    /\ pc = "model" =>
          /\ \A c \in ClassIds(y_encoded) :
                /\ Cardinality(RowsOf(y_encoded, c)) >= 2
                /\ Holds(train_idx, c)
          /\ train_idx \cap test_idx = {}
          /\ train_idx \cup test_idx = 1..Len(y_encoded)
          /\ 5 * Cardinality(test_idx) >= Len(y_encoded)
          /\ 5 * (Cardinality(test_idx) - 1) < Len(y_encoded)
          /\ Cardinality(test_idx) >= Cardinality(ClassIds(y_encoded))
    /\ (pc # "split" /\ \E c \in ClassIds(y_encoded) :
                           Cardinality(RowsOf(y_encoded, c)) < 2) =>
          (pc = "crashed" /\ error = [exc |-> "ValueError", line |-> 55])

C8_Witness ==
    /\ pc = "model"
    /\ Cardinality(ClassIds(y_encoded)) = 2
    /\ \E c \in ClassIds(y_encoded) : ~Holds(test_idx, c)
    /\ \A c \in ClassIds(y_encoded) : Holds(train_idx, c)

====
